---- MODULE Spec2Model ----
(***************************************************************************)
(* Corpus Query Language engine: the programmatic API (core.py), the       *)
(* positional scanner (engine.py), the token predicate evaluator           *)
(* (utils.py) and the query front end (parser.py and its grammar).         *)
(*                                                                         *)
(* Data representation                                                     *)
(*   - an attribute value is a sequence of characters;                     *)
(*   - a regular expression is a sequence of pattern items: a literal      *)
(*     character, ".*", or "(" (an unbalanced group: re.compile fails);    *)
(*   - a corpus token is a function from attribute names to values         *)
(*     (a Python dict), possibly lacking some attribute;                   *)
(*   - AST elements are the tuples of the source: <<attr, op, pattern>>,   *)
(*     <<"and", q1, ...>>, <<"or", q1, ...>>, <<"distance", <<m, n>>>>,    *)
(*     <<"?", q>>;                                                         *)
(*   - a query string is the sequence of its lexemes, whitespace kept as   *)
(*     a lexeme of type "WS";                                              *)
(*   - Python None is the value None (no corpus index equals it);          *)
(*   - the outcome of a call is [kind |-> "return", value |-> v] or        *)
(*     [kind |-> "raise", value |-> exception class name].                 *)
(***************************************************************************)
EXTENDS Integers, Sequences, FiniteSets, TLC

\* ------------------------------------------------------------------------
\* Bounds of the model
\* ------------------------------------------------------------------------
MaxCorpus == 3
MaxElems == 2
MaxCalls == 2
DeepCorpus == 7

None == -1

\* ------------------------------------------------------------------------
\* Regular expressions (host facility re.compile / re.match)
\* ------------------------------------------------------------------------
re_compiles(regexp) == \A i \in 1..Len(regexp) : regexp[i] # "("

RECURSIVE re_fullmatch(_, _)
re_fullmatch(p, v) ==
    IF p = <<>> THEN v = <<>>
    ELSE IF Head(p) = ".*"
         THEN \/ re_fullmatch(Tail(p), v)
              \/ (v # <<>> /\ re_fullmatch(p, Tail(v)))
         ELSE v # <<>> /\ Head(v) = Head(p) /\ re_fullmatch(Tail(p), Tail(v))

\* ------------------------------------------------------------------------
\* utils.py: the token predicate evaluator.  A result is "True", "False",
\* or the name of the exception raised.
\* ------------------------------------------------------------------------
PyBool(b) == IF b THEN "True" ELSE "False"

IsExc(r) == r \in {"KeyError", "ValueError"}

\* a faulty variant: '!=' returns the match itself, not its negation
simple_match_neq_not_negated(query, text_token) ==
    IF Len(query) # 3 THEN "ValueError"
    ELSE IF query[1] \notin DOMAIN text_token THEN "KeyError"
    ELSE IF ~re_compiles(query[3]) THEN "ValueError"
    ELSE IF query[2] \in {"=", "!="}
         THEN PyBool(re_fullmatch(query[3], text_token[query[1]]))
         ELSE "ValueError"

\* a faulty variant: the pattern is compiled before the attribute is looked up
simple_match_compile_first(query, text_token) ==
    IF Len(query) # 3 THEN "ValueError"
    ELSE IF ~re_compiles(query[3]) THEN "ValueError"
    ELSE IF query[1] \notin DOMAIN text_token THEN "KeyError"
    ELSE IF query[2] = "="
         THEN PyBool(re_fullmatch(query[3], text_token[query[1]]))
         ELSE IF query[2] = "!="
         THEN PyBool(~re_fullmatch(query[3], text_token[query[1]]))
         ELSE "ValueError"

simple_match(query, text_token) ==
    IF Len(query) # 3 THEN "ValueError"
    ELSE LET annotation == query[1]
             equality == query[2]
             regexp == query[3]
         IN IF annotation \notin DOMAIN text_token THEN "KeyError"
            ELSE IF ~re_compiles(regexp) THEN "ValueError"
            ELSE LET matches == re_fullmatch(regexp, text_token[annotation])
                 IN IF equality = "=" THEN PyBool(matches)
                    ELSE IF equality = "!=" THEN PyBool(~matches)
                    ELSE "ValueError"

\* [simple_match(item, token) for item in items] followed by all(...):
\* every item is evaluated in order, the first exception propagates.
RECURSIVE all_matches(_, _)
all_matches(items, text_token) ==
    IF items = <<>> THEN "True"
    ELSE LET r == simple_match(Head(items), text_token)
         IN IF IsExc(r) THEN r
            ELSE LET rest == all_matches(Tail(items), text_token)
                 IN IF IsExc(rest) THEN rest
                    ELSE IF r = "True" THEN rest ELSE "False"

\* a faulty variant: `return False` inside the loop, after the first alternative
alternative_match_first_only(queries, text_token) ==
    IF queries = <<>> THEN "False"
    ELSE LET query == Head(queries)
         IN IF query[1] = "and" THEN all_matches(Tail(query), text_token)
            ELSE IF Len(query) = 3 /\ simple_match(query, text_token) = "True"
            THEN "True"
            ELSE "False"

RECURSIVE alternative_match(_, _)
alternative_match(queries, text_token) ==
    IF queries = <<>> THEN "False"
    ELSE LET query == Head(queries)
         IN IF query[1] = "and"
            THEN LET r == all_matches(Tail(query), text_token)
                 IN IF IsExc(r) THEN r
                    ELSE IF r = "True" THEN "True"
                    ELSE alternative_match(Tail(queries), text_token)
            ELSE IF Len(query) = 3
            THEN IF simple_match(query, text_token) = "True" THEN "True"
                 ELSE alternative_match(Tail(queries), text_token)
            ELSE alternative_match(Tail(queries), text_token)


\* ------------------------------------------------------------------------
\* parser.py: the query front end.  A lexeme is [type, value]; value is the
\* lexeme's text as a sequence of characters (for ATTR, the attribute name).
\* ------------------------------------------------------------------------
Lexeme(t, v) == [type |-> t, value |-> v]

\* s[1:-1]
StripEnds(s) == IF Len(s) < 2 THEN <<>> ELSE SubSeq(s, 2, Len(s) - 1)

\* str.strip() on a sequence of characters
RECURSIVE py_strip(_)
py_strip(s) ==
    IF s = <<>> THEN s
    ELSE IF Head(s) = " " THEN py_strip(Tail(s))
    ELSE IF s[Len(s)] = " " THEN py_strip(SubSeq(s, 1, Len(s) - 1))
    ELSE s

\* s.split(c)[-1]: what follows the last occurrence of c
RECURSIVE AfterLast(_, _)
AfterLast(s, c) ==
    IF \E i \in 1..Len(s) : s[i] = c THEN AfterLast(Tail(s), c) ELSE s

\* s.split(",") for a text holding exactly one comma
SplitComma(s) ==
    LET k == CHOOSE i \in 1..Len(s) : s[i] = ","
    IN <<SubSeq(s, 1, k - 1), SubSeq(s, k + 1, Len(s))>>

DigitValue(c) ==
    CASE c = "0" -> 0 [] c = "1" -> 1 [] c = "2" -> 2 [] c = "3" -> 3
      [] c = "4" -> 4 [] c = "5" -> 5 [] c = "6" -> 6 [] c = "7" -> 7
      [] c = "8" -> 8 [] c = "9" -> 9

\* int(s) for a non-empty sequence of decimal digits
RECURSIVE py_int(_)
py_int(s) ==
    IF Len(s) = 1 THEN DigitValue(s[1])
    ELSE 10 * py_int(SubSeq(s, 1, Len(s) - 1)) + DigitValue(s[Len(s)])

_clean_value(value) ==
    IF Len(value) >= 1 /\ value[1] = "'" /\ value[Len(value)] = "'"
    THEN StripEnds(value) ELSE value

_parse_distance(distance_token) ==
    LET numbers_part == StripEnds(AfterLast(distance_token, "]"))
        parts == SplitComma(numbers_part)
        min_str == py_strip(parts[1])
        max_str == py_strip(parts[2])
        min_val == IF min_str # <<>> THEN py_int(min_str) ELSE 0
        max_val == py_int(max_str)
    IN <<min_val, max_val>>

equals_query(annotation, value) == <<annotation, "=", _clean_value(value)>>

not_equals_query(annotation, value) == <<annotation, "!=", _clean_value(value)>>

and_query(atoms) == <<"and">> \o atoms

or_query(queries) == <<"or">> \o queries

optional_query(items) == <<"?", items[1]>>

distance_query(query1, distance_token, query2) ==
    <<query1, <<"distance", _parse_distance(distance_token)>>, query2>>

\* query_content: items[0] if len(items) == 1 else the conjunction
query_content(items) == IF Len(items) = 1 THEN items[1] ELSE and_query(items)

\* The grammar (recursive descent over the lexemes, whitespace ignored):
\*   pattern := element ( element | DISTANCE element )*
\*   element := '[' inside ']' ( '?' )?  |  '(' alt ( '|' alt )+ ')'
\*   inside  := simple ( '&' simple )*
\*   simple  := ATTR ( '=' | '!=' ) VALUE
\*   alt     := '[' inside ']'
\* A parse result is [ok |-> FALSE] or [ok |-> TRUE, node(s), next].
NoParse == [ok |-> FALSE]

\* Bind(e, Body): Body applied to the value of e, e evaluated once
Bind(e, Body(_)) == CHOOSE r \in {Body(x) : x \in {e}} : TRUE

TypeAt(ts, i) == IF i >= 1 /\ i <= Len(ts) THEN ts[i].type ELSE "EOF"

parse_simple(ts, i) ==
    IF /\ TypeAt(ts, i) = "ATTR"
       /\ TypeAt(ts, i + 1) \in {"EQ", "NEQ"}
       /\ TypeAt(ts, i + 2) = "VALUE"
    THEN [ok |-> TRUE,
          node |-> IF ts[i + 1].type = "EQ"
                   THEN equals_query(ts[i].value, ts[i + 2].value)
                   ELSE not_equals_query(ts[i].value, ts[i + 2].value),
          next |-> i + 3]
    ELSE NoParse

RECURSIVE parse_inside(_, _, _)
parse_inside(ts, i, acc) ==
    Bind(parse_simple(ts, i), LAMBDA s :
        IF ~s.ok THEN NoParse
        ELSE IF TypeAt(ts, s.next) = "AND"
             THEN parse_inside(ts, s.next + 1, Append(acc, s.node))
             ELSE [ok |-> TRUE, nodes |-> Append(acc, s.node), next |-> s.next])

parse_bracket(ts, i) ==
    IF TypeAt(ts, i) # "LBRACK" THEN NoParse
    ELSE Bind(parse_inside(ts, i + 1, <<>>), LAMBDA r :
             IF r.ok /\ TypeAt(ts, r.next) = "RBRACK"
             THEN [ok |-> TRUE, node |-> query_content(r.nodes), next |-> r.next + 1]
             ELSE NoParse)

RECURSIVE parse_alts(_, _, _)
parse_alts(ts, i, acc) ==
    Bind(parse_bracket(ts, i), LAMBDA b :
        IF ~b.ok THEN NoParse
        ELSE IF TypeAt(ts, b.next) = "OR"
             THEN parse_alts(ts, b.next + 1, Append(acc, b.node))
             ELSE [ok |-> TRUE, nodes |-> Append(acc, b.node), next |-> b.next])

parse_element(ts, i) ==
    IF TypeAt(ts, i) = "LBRACK"
    THEN Bind(parse_bracket(ts, i), LAMBDA b :
             IF ~b.ok THEN NoParse
             ELSE IF TypeAt(ts, b.next) = "OPT"
                  THEN [ok |-> TRUE, node |-> optional_query(<<b.node>>),
                        next |-> b.next + 1]
                  ELSE b)
    ELSE IF TypeAt(ts, i) = "LPAREN"
    THEN Bind(parse_alts(ts, i + 1, <<>>), LAMBDA r :
             IF r.ok /\ Len(r.nodes) >= 2 /\ TypeAt(ts, r.next) = "RPAREN"
             THEN [ok |-> TRUE, node |-> or_query(r.nodes), next |-> r.next + 1]
             ELSE NoParse)
    ELSE NoParse

RECURSIVE parse_pattern(_, _, _)
parse_pattern(ts, i, acc) ==
    IF i > Len(ts)
    THEN IF acc = <<>> THEN NoParse ELSE [ok |-> TRUE, ast |-> acc]
    ELSE IF TypeAt(ts, i) = "DISTANCE"
    THEN Bind(parse_element(ts, i + 1), LAMBDA e :
             IF acc = <<>> \/ ~e.ok THEN NoParse
             ELSE Bind(SubSeq(acc, 1, Len(acc) - 1)
                         \o distance_query(acc[Len(acc)], ts[i].value, e.node),
                       LAMBDA acc2 : parse_pattern(ts, e.next, acc2)))
    ELSE Bind(parse_element(ts, i), LAMBDA e :
             IF ~e.ok THEN NoParse
             ELSE Bind(Append(acc, e.node),
                       LAMBDA acc2 : parse_pattern(ts, e.next, acc2)))

IsWhitespace(l) == l.type = "WS"

\* `not query or not query.strip()`
IsBlank(q) == \A i \in 1..Len(q) : IsWhitespace(q[i])

NotWhitespace(l) == ~IsWhitespace(l)

\* CQLParser.parse: [ok |-> TRUE, ast] or [ok |-> FALSE] (ValueError)
parse(q) ==
    IF IsBlank(q) THEN NoParse
    ELSE Bind(SelectSeq(q, NotWhitespace), LAMBDA ts : parse_pattern(ts, 1, <<>>))

\* utils.build_grammar: CQLParser(debug).parse(query)
build_grammar(q) == parse(q)


\* ------------------------------------------------------------------------
\* Inputs: corpus tokens, AST elements, surface queries
\* ------------------------------------------------------------------------
ANNOTATION_TYPES == {"lemma", "pos", "morph", "word"}

\* {word:"rey", lemma:"rey", pos:"N", morph:""}
tokRey == [word |-> <<"r", "e", "y">>, lemma |-> <<"r", "e", "y">>,
           pos |-> <<"N">>, morph |-> <<>>]

\* {word:"al", lemma:"al", pos:"V", morph:""}
tokAl == [word |-> <<"a", "l">>, lemma |-> <<"a", "l">>,
          pos |-> <<"V">>, morph |-> <<>>]

\* a token without the morph annotation
tokNoMorph == [word |-> <<"a", "l">>, lemma |-> <<"a", "l">>, pos |-> <<"N">>]

FullTokens == {tokRey, tokAl}

\* tokens of a corpus in which some token lacks an annotation
PartialTokens == {tokRey, tokNoMorph}

HasAllAnnotations(tok) == ANNOTATION_TYPES \subseteq DOMAIN tok

\* [lemma='re.*'], [pos='N'], [morph='.*']
SimA == <<"lemma", "=", <<"r", "e", ".*">>>>

SimB == <<"pos", "=", <<"N">>>>

SimM == <<"morph", "=", <<".*">>>>

AndBM == <<"and", SimB, SimM>>

OrA_BM == <<"or", SimA, AndBM>>

OptA == <<"?", SimA>>

PerTokenElems == {SimA, AndBM, OrA_BM, OptA}

Distances == {<<"distance", <<0, 2>>>>}

IsDistance(e) == e[1] = "distance"

SeqsUpTo(S, n) == UNION {[1..k -> S] : k \in 0..n}

\* ASTs the grammar produces: per-token elements, a Distance only between
\* two per-token elements
RECURSIVE Gaps(_)
Gaps(elems) ==
    IF Len(elems) <= 1 THEN {elems}
    ELSE LET rest == Gaps(Tail(elems))
         IN {<<Head(elems)>> \o r : r \in rest}
            \cup {<<Head(elems), d>> \o r : d \in Distances, r \in rest}

WellFormedASTs ==
    UNION {Gaps(s) : s \in SeqsUpTo(PerTokenElems, MaxElems) \ {<<>>}}

\* The surface form of an AST (the query a user writes for it)
DigitChar(n) ==
    CASE n = 0 -> "0" [] n = 1 -> "1" [] n = 2 -> "2" [] n = 3 -> "3"
      [] n = 4 -> "4" [] n = 5 -> "5" [] n = 6 -> "6" [] n = 7 -> "7"
      [] n = 8 -> "8" [] n = 9 -> "9"

RECURSIVE JoinWith(_, _)
JoinWith(parts, sep) ==
    IF Len(parts) = 1 THEN parts[1]
    ELSE parts[1] \o <<sep>> \o JoinWith(Tail(parts), sep)

SurfaceSimple(q) ==
    <<Lexeme("ATTR", q[1]),
      IF q[2] = "=" THEN Lexeme("EQ", <<"=">>) ELSE Lexeme("NEQ", <<"!", "=">>),
      Lexeme("VALUE", <<"'">> \o q[3] \o <<"'">>)>>

SurfaceBracket(q) ==
    <<Lexeme("LBRACK", <<"[">>)>>
      \o (IF q[1] = "and"
          THEN JoinWith([i \in 1..(Len(q) - 1) |-> SurfaceSimple(q[i + 1])],
                        Lexeme("AND", <<"&">>))
          ELSE SurfaceSimple(q))
      \o <<Lexeme("RBRACK", <<"]">>)>>

SurfaceElement(e) ==
    IF e[1] = "distance"
    THEN <<Lexeme("DISTANCE",
                  <<"[", "]", "{", DigitChar(e[2][1]), ",", DigitChar(e[2][2]), "}">>)>>
    ELSE IF e[1] = "?" THEN SurfaceBracket(e[2]) \o <<Lexeme("OPT", <<"?">>)>>
    ELSE IF e[1] = "or"
    THEN <<Lexeme("LPAREN", <<"(">>)>>
           \o JoinWith([i \in 1..(Len(e) - 1) |-> SurfaceBracket(e[i + 1])],
                       Lexeme("OR", <<"|">>))
           \o <<Lexeme("RPAREN", <<")">>)>>
    ELSE SurfaceBracket(e)

RECURSIVE Surface(_)
Surface(a) ==
    IF a = <<>> THEN <<>> ELSE SurfaceElement(Head(a)) \o Surface(Tail(a))

WS == Lexeme("WS", <<" ">>)

ValidQueries == {Surface(a) : a \in WellFormedASTs}

EmptyQueries == {<<>>, <<WS>>}

\* queries that do not parse: a lone lexeme, a leading or trailing DISTANCE,
\* an unclosed bracket, a '?' with nothing before it
InvalidQueries ==
    LET q == Surface(<<SimA>>)
        d == SurfaceElement(<<"distance", <<0, 2>>>>)
    IN {<<Lexeme("LBRACK", <<"[">>)>>,
        <<Lexeme("OPT", <<"?">>)>> \o q,
        d \o q,
        q \o d,
        SubSeq(q, 1, Len(q) - 1),
        q \o d \o d \o q}

Queries == ValidQueries \cup EmptyQueries \cup InvalidQueries

\* corpora of fully annotated tokens, and corpora with tokens lacking morph
Corpora == SeqsUpTo(FullTokens, MaxCorpus) \cup SeqsUpTo(PartialTokens, MaxCorpus)


\* ------------------------------------------------------------------------
\* State
\* ------------------------------------------------------------------------
VARIABLES
    corpus,                 \* the caller's corpus (read-only)
    query,                  \* the caller's query string
    pc,                     \* "idle": no call running; "loop": in the while loop
    api,                    \* the running call: "findall", "match" or "none"
    ast, mode,              \* parse_corpus arguments
    text_index, tree_index, current_initial_state,
    first_matching_index, all_spans,
    seen,                   \* per API function, the outcomes of its finished calls, in order
    direct                  \* a library function called directly: its name, its
                            \* arguments and, once it has been called, its outcome

vars == <<corpus, query, pc, api, ast, mode, text_index, tree_index,
          current_initial_state, first_matching_index, all_spans, seen, direct>>

inputs == <<corpus, query, direct>>

locals == <<ast, mode, text_index, tree_index, current_initial_state,
            first_matching_index, all_spans>>

cursor == <<text_index, tree_index, current_initial_state, first_matching_index>>

Return(v) == [kind |-> "return", value |-> v]

Raise(e) == [kind |-> "raise", value |-> e]

Proceed == [kind |-> "proceed", value |-> "none"]

\* the direct call has not been made yet
Pending == [kind |-> "pending", value |-> "none"]

DirectCall(name, arguments) == [fn |-> name, args |-> arguments, outcome |-> Pending]

\* no library function is called directly: only findall / match are used
NoDirectCall == DirectCall("none", <<>>)

\* the call returns or raises: the outcome reaches the caller
Finish(outcome) ==
    /\ pc' = "idle"
    /\ api' = "none"
    /\ seen' = [seen EXCEPT ![api] = Append(@, outcome)]

FinishCall(name, outcome) ==
    /\ pc' = "idle"
    /\ api' = "none"
    /\ seen' = [seen EXCEPT ![name] = Append(@, outcome)]

\* core.py: the checks of findall / match that precede parsing
EmptyResult(name) == IF name = "findall" THEN Return(<<>>) ELSE Return(FALSE)

\* a faulty variant: an empty corpus is rejected like an empty query
core_precheck_corpus_rejected(name, q, c) ==
    IF IsBlank(q) THEN Raise("ValueError")
    ELSE IF c = <<>> THEN Raise("ValueError")
    ELSE Proceed

\* a faulty variant: the corpus is checked before the query
core_precheck_corpus_first(name, q, c) ==
    IF c = <<>> THEN EmptyResult(name)
    ELSE IF IsBlank(q) THEN Raise("ValueError")
    ELSE Proceed

core_precheck(name, q, c) ==
    IF IsBlank(q) THEN Raise("ValueError")
    ELSE IF c = <<>> THEN EmptyResult(name)
    ELSE Proceed

\* a faulty variant: the mode is examined after the empty corpus and the
\* empty AST
parse_corpus_precheck_mode_last(a, c, m) ==
    IF c = <<>> THEN Return(IF m = "match" THEN FALSE ELSE <<>>)
    ELSE IF a = <<>> THEN Return(IF m = "match" THEN FALSE ELSE <<>>)
    ELSE IF m \notin {"match", "find"} THEN Raise("ValueError")
    ELSE Proceed

\* engine.py 42-52: the checks of parse_corpus that precede the loop
parse_corpus_precheck(a, c, m) ==
    IF m \notin {"match", "find"} THEN Raise("ValueError")
    ELSE IF c = <<>> THEN Return(IF m = "match" THEN FALSE ELSE <<>>)
    ELSE IF a = <<>> THEN Return(IF m = "match" THEN FALSE ELSE <<>>)
    ELSE Proceed

\* a faulty variant: the list outlives the call (a module-level or
\* default-argument list)
kept_all_spans(previous) == previous

\* engine.py 58: all_spans = [] (the previous call's list is not reused)
fresh_all_spans(previous) == <<>>

\* engine.py 54-61
parse_corpus_enter(name, a, m) ==
    /\ pc' = "loop"
    /\ api' = name
    /\ ast' = a
    /\ mode' = m
    /\ text_index' = 0
    /\ tree_index' = 0
    /\ current_initial_state' = 0
    /\ first_matching_index' = None
    /\ all_spans' = fresh_all_spans(all_spans)
    /\ UNCHANGED seen

\* CQLEngine.findall / CQLEngine.match up to the first loop iteration; the
\* caller makes at most MaxCalls calls of each on the same corpus and query
Call(name, m) ==
    /\ pc = "idle"
    /\ Len(seen[name]) < MaxCalls
    /\ UNCHANGED inputs
    /\ \E pre \in {core_precheck(name, query, corpus)} :
          IF pre.kind # "proceed"
          THEN FinishCall(name, pre) /\ UNCHANGED locals
          ELSE \E g \in {build_grammar(query)} :
                  IF ~g.ok
                  THEN FinishCall(name, Raise("ValueError")) /\ UNCHANGED locals
                  ELSE \E pre2 \in {parse_corpus_precheck(g.ast, corpus, m)} :
                          IF pre2.kind # "proceed"
                          THEN FinishCall(name, pre2) /\ UNCHANGED locals
                          ELSE parse_corpus_enter(name, g.ast, m)

findall == Call("findall", "find")

match == Call("match", "match")

\* ------------------------------------------------------------------------
\* engine.py 71-233: one iteration of the while loop per action
\* ------------------------------------------------------------------------
ast_length == Len(ast)

corpus_length == Len(corpus)

LoopCondition == text_index < corpus_length \/ tree_index = ast_length

InStep == pc = "loop" /\ tree_index # ast_length /\ text_index < corpus_length

current_token == corpus[text_index + 1]

current_query == ast[tree_index + 1]

operator == current_query[1]

\* a faulty variant: the start is overwritten at every matched element
Advance_start_overwritten ==
    /\ first_matching_index' = text_index
    /\ tree_index' = tree_index + 1
    /\ text_index' = text_index + 1
    /\ UNCHANGED <<current_initial_state, all_spans, ast, mode, pc, api, seen>>

\* tree_index += 1; text_index += 1, first_matching_index set if None
Advance ==
    /\ first_matching_index' =
           IF first_matching_index = None THEN text_index ELSE first_matching_index
    /\ tree_index' = tree_index + 1
    /\ text_index' = text_index + 1
    /\ UNCHANGED <<current_initial_state, all_spans, ast, mode, pc, api, seen>>

\* a faulty variant: the reset goes back to the anchor without moving it
Reset_anchor_kept ==
    /\ tree_index' = 0
    /\ current_initial_state' = current_initial_state
    /\ text_index' = current_initial_state
    /\ first_matching_index' = None
    /\ UNCHANGED <<all_spans, ast, mode, pc, api, seen>>

\* tree_index = 0; current_initial_state += 1; text_index = current_initial_state
Reset ==
    /\ tree_index' = 0
    /\ current_initial_state' = current_initial_state + 1
    /\ text_index' = current_initial_state + 1
    /\ first_matching_index' = None
    /\ UNCHANGED <<all_spans, ast, mode, pc, api, seen>>

\* an exception leaves parse_corpus and is re-raised by findall / match
Propagate(e) == Finish(Raise(e)) /\ UNCHANGED locals

\* engine.py 229-233
final_result(m, spans) == IF m = "match" THEN Len(spans) > 0 ELSE spans

\* engine.py 82: where the scan resumes after a completed match
after_completion(ti, cis) == ti + 1

\* engine.py 73-86
Completed ==
    /\ pc = "loop"
    /\ tree_index = ast_length
    /\ UNCHANGED inputs
    /\ all_spans' = Append(all_spans, <<first_matching_index, text_index>>)
    /\ IF mode = "match"
       THEN /\ Finish(Return(TRUE))
            /\ UNCHANGED <<ast, mode, cursor>>
       ELSE /\ text_index' = after_completion(text_index, current_initial_state)
            /\ tree_index' = 0
            /\ first_matching_index' = None
            /\ current_initial_state' = current_initial_state + 1
            /\ UNCHANGED <<ast, mode, pc, api, seen>>

\* engine.py 71, 229-233: the loop condition fails, the result is returned
LoopExit ==
    /\ pc = "loop"
    /\ ~LoopCondition
    /\ UNCHANGED inputs
    /\ Finish(Return(final_result(mode, all_spans)))
    /\ UNCHANGED locals

\* a faulty variant: the Simple branch without its `except KeyError`
SimpleStep_KeyError_raised ==
    /\ InStep
    /\ operator \in ANNOTATION_TYPES
    /\ UNCHANGED inputs
    /\ LET r == simple_match(current_query, current_token)
       IN IF r = "True" THEN Advance
          ELSE IF r = "False" THEN Reset
          ELSE Propagate(r)

\* engine.py 106-128
SimpleStep ==
    /\ InStep
    /\ operator \in ANNOTATION_TYPES
    /\ UNCHANGED inputs
    /\ LET r == simple_match(current_query, current_token)
       IN IF r = "True" THEN Advance
          ELSE IF r \in {"False", "KeyError"} THEN Reset
          ELSE Propagate(r)

\* engine.py 130-145
OrStep ==
    /\ InStep
    /\ operator = "or"
    /\ UNCHANGED inputs
    /\ LET r == alternative_match(Tail(current_query), current_token)
       IN IF r = "True" THEN Advance
          ELSE IF r = "False" THEN Reset
          ELSE Propagate(r)

\* engine.py 156-169: the for loop over range(min_distance, max_distance);
\* n iterations remain, ti is text_index
RECURSIVE distance_loop(_, _, _, _, _)
distance_loop(n, ti, a, tri, c) ==
    IF n <= 0 \/ ti >= Len(c) THEN [submatch |-> "False", text_index |-> ti]
    ELSE IF tri + 1 < Len(a)
    THEN LET r == simple_match(a[tri + 2], c[ti + 1])
         IN IF IsExc(r) THEN [submatch |-> r, text_index |-> ti]
            ELSE IF r = "True" THEN [submatch |-> "True", text_index |-> ti + 1]
            ELSE distance_loop(n - 1, ti + 1, a, tri, c)
    ELSE distance_loop(n - 1, ti + 1, a, tri, c)

\* engine.py 147-177
DistanceStep ==
    /\ InStep
    /\ operator = "distance"
    /\ UNCHANGED inputs
    /\ LET min_distance == current_query[2][1]
           max_distance == current_query[2][2]
           d == distance_loop(max_distance - min_distance, text_index, ast,
                              tree_index, corpus)
       IN IF d.submatch = "True"
          THEN /\ tree_index' = tree_index + 2
               /\ text_index' = d.text_index
               /\ UNCHANGED <<current_initial_state, first_matching_index,
                              all_spans, ast, mode, pc, api, seen>>
          ELSE IF d.submatch = "False" THEN Reset
          ELSE Propagate(d.submatch)

\* engine.py 179-205
AndStep ==
    /\ InStep
    /\ operator = "and"
    /\ UNCHANGED inputs
    /\ LET r == all_matches(Tail(current_query), current_token)
       IN IF r = "True" THEN Advance ELSE Reset

\* a faulty variant: an Optional whose inner does not hold fails the
\* attempt like a Simple element
OptionalStep_failure_resets ==
    /\ InStep
    /\ operator = "?"
    /\ UNCHANGED inputs
    /\ LET r == alternative_match(Tail(current_query), current_token)
       IN IF r = "True" THEN Advance ELSE Reset

\* engine.py 207-223
OptionalStep ==
    /\ InStep
    /\ operator = "?"
    /\ UNCHANGED inputs
    /\ LET r == alternative_match(Tail(current_query), current_token)
       IN IF r = "True" THEN Advance
          ELSE /\ tree_index' = tree_index + 1
               /\ UNCHANGED <<text_index, current_initial_state,
                              first_matching_index, all_spans, ast, mode,
                              pc, api, seen>>

NoOutcomes == [f \in {"findall", "match", "parse_corpus"} |-> <<>>]

InitLocals ==
    /\ pc = "idle"
    /\ api = "none"
    /\ ast = <<>>
    /\ mode = "none"
    /\ text_index = 0
    /\ tree_index = 0
    /\ current_initial_state = 0
    /\ first_matching_index = None
    /\ all_spans = <<>>
    /\ seen = NoOutcomes

Init ==
    /\ corpus \in Corpora
    /\ query \in Queries
    /\ direct = NoDirectCall
    /\ InitLocals

Next ==
    \/ findall
    \/ match
    \/ Completed
    \/ LoopExit
    \/ SimpleStep
    \/ OrStep
    \/ DistanceStep
    \/ AndStep
    \/ OptionalStep

Spec == Init /\ [][Next]_vars


\* Long corpora, sequences of Simple elements only
DeepASTs == {<<SimA>>, <<SimA, SimA>>}

InitDeep ==
    /\ corpus \in SeqsUpTo(FullTokens, DeepCorpus)
    /\ query \in {Surface(a) : a \in DeepASTs}
    /\ direct = NoDirectCall
    /\ InitLocals

NextDeep ==
    \/ findall
    \/ match
    \/ Completed
    \/ LoopExit
    \/ SimpleStep

SpecDeep == InitDeep /\ [][NextDeep]_vars

\* ------------------------------------------------------------------------
\* Properties
\* ------------------------------------------------------------------------
Outcomes(name) == {seen[name][k] : k \in 1..Len(seen[name])}

Returned(o) == o.kind = "return"

WellFormed(q) == build_grammar(q).ok

ASTOf(q) == build_grammar(q).ast

FullCorpus == \A i \in 1..Len(corpus) : HasAllAnnotations(corpus[i])

\* the per-token predicate e holds of the token (all referenced attributes present)
RECURSIVE Holds(_, _)
Holds(e, tok) ==
    IF e[1] = "and" THEN \A k \in 2..Len(e) : Holds(e[k], tok)
    ELSE IF e[1] = "or" THEN \E k \in 2..Len(e) : Holds(e[k], tok)
    ELSE /\ e[1] \in DOMAIN tok
         /\ re_compiles(e[3])
         /\ (e[2] = "=") = re_fullmatch(e[3], tok[e[1]])

PerTokenOnly(a) == \A j \in 1..Len(a) : a[j][1] \notin {"distance", "?"}

\* the pattern a occurs in the corpus at (zero-based) position i
Occurrence(a, i) ==
    /\ i + Len(a) <= Len(corpus)
    /\ \A j \in 1..Len(a) : Holds(a[j], corpus[i + j])

Contains(spans, sp) == \E k \in 1..Len(spans) : spans[k] = sp

\* C1: for an AST of per-token elements only and a corpus whose tokens carry
\* all four attributes, findall returns the span (i, i+k) of every occurrence
\* of the pattern, adjacent and overlapping occurrences included.
C1_EveryOccurrenceFound ==
    (WellFormed(query) /\ PerTokenOnly(ASTOf(query)) /\ FullCorpus) =>
        \A o \in Outcomes("findall") :
            /\ Returned(o)
            /\ \A i \in 0..Len(corpus) :
                   Occurrence(ASTOf(query), i) =>
                       Contains(o.value, <<i, i + Len(ASTOf(query))>>)

ValidSpan(sp) == sp[1] # None /\ 0 <= sp[1] /\ sp[1] < sp[2] /\ sp[2] <= Len(corpus)

\* C2: every span (s, e) findall returns has an integer start and
\* 0 <= s < e <= |corpus|, for every AST of the front end and every corpus.
C2_SpanValidity ==
    \A o \in Outcomes("findall") :
        Returned(o) => \A k \in 1..Len(o.value) : ValidSpan(o.value[k])

\* C3: consecutive spans returned by findall have strictly increasing
\* starts (so no start and no span is repeated).
C3_StrictlyIncreasingStarts ==
    \A o \in Outcomes("findall") :
        Returned(o) =>
            \A k \in 1..(Len(o.value) - 1) : o.value[k][1] < o.value[k + 1][1]

\* C4: for a well-formed query, match returns true exactly when findall
\* returns a non-empty list, and neither raises where the other returns.
C4_ModeConsistency ==
    WellFormed(query) =>
        \A f \in Outcomes("findall") : \A m \in Outcomes("match") :
            \/ /\ Returned(f) /\ Returned(m)
               /\ m.value = (f.value # <<>>)
            \/ ~Returned(f) /\ ~Returned(m)

\* C5: for every well-formed query, findall on the empty corpus returns the
\* empty list and match returns false; neither raises.
C5_EmptyCorpus ==
    (corpus = <<>> /\ WellFormed(query)) =>
        /\ \A o \in Outcomes("findall") : Returned(o) /\ o.value = <<>>
        /\ \A o \in Outcomes("match") : Returned(o) /\ o.value = FALSE

C5_Witness ==
    /\ corpus = <<>>
    /\ WellFormed(query)
    /\ Len(seen["findall"]) >= 1
    /\ Len(seen["match"]) >= 1

ScannerNeverRan == pc = "idle" /\ ast = <<>> /\ mode = "none" /\ all_spans = <<>>

\* C6: with the empty query string findall and match raise ValueError for
\* every corpus, the empty corpus included; nothing is returned and the
\* scanner is not run.
C6_EmptyQuery ==
    query = <<>> =>
        /\ \A name \in {"findall", "match"} : \A o \in Outcomes(name) :
               o = Raise("ValueError")
        /\ ScannerNeverRan

C6_Witness ==
    /\ query = <<>>
    /\ corpus = <<>>
    /\ Len(seen["findall"]) >= 1
    /\ Len(seen["match"]) >= 1

\* C7: for every non-empty query that does not parse and every corpus, the
\* empty corpus included, findall and match raise and the scanner is never
\* invoked.
C7_InvalidQuery ==
    (~IsBlank(query) /\ ~WellFormed(query)) =>
        /\ \A name \in {"findall", "match"} : \A o \in Outcomes(name) :
               ~Returned(o)
        /\ ScannerNeverRan

\* C8: calls of findall with the same corpus and query have identical
\* outcomes, and so have calls of match: nothing a call wrote is read by a
\* later call.
C8_Idempotence ==
    \A name \in {"findall", "match"} :
        \A j, k \in 1..Len(seen[name]) : seen[name][j] = seen[name][k]

C8_Witness ==
    /\ Len(seen["findall"]) >= 2
    /\ Len(seen["match"]) >= 2
    /\ Returned(seen["findall"][1])
    /\ Len(seen["findall"][1].value) >= 2
    /\ all_spans # <<>>

\* C9: a syntactically valid query whose values compile, on a corpus whose
\* tokens carry all four attributes, makes findall and match return: neither
\* raises (a Distance followed by an And or an Or included).
C9_NoCrash ==
    (WellFormed(query) /\ FullCorpus) =>
        \A name \in {"findall", "match"} : \A o \in Outcomes(name) : Returned(o)

NoTokenHolds(e) == \A i \in 1..Len(corpus) : ~Holds(e, corpus[i])

\* C10: a completion reached with start None adds no span and does not make
\* match return true: for an AST of a single Optional whose inner predicate
\* holds of no token, findall returns [] and match returns false.
C10_NoEmissionWithoutStart ==
    /\ \A k \in 1..Len(all_spans) : all_spans[k][1] # None
    /\ (WellFormed(query) /\ Len(ASTOf(query)) = 1 /\ ASTOf(query)[1][1] = "?"
          /\ NoTokenHolds(ASTOf(query)[1][2])) =>
           /\ \A o \in Outcomes("findall") : Returned(o) /\ o.value = <<>>
           /\ \A o \in Outcomes("match") : Returned(o) /\ o.value = FALSE


\* ------------------------------------------------------------------------
\* Distance elements: <<P, Distance{m, n}, Q>> for every range 0 <= m < n <=
\* MaxDist, Q a Simple element, on corpora of up to DistCorpus tokens
\* ------------------------------------------------------------------------
MaxDist == 3

DistCorpus == 4

DistRanges == {r \in (0..MaxDist) \X (0..MaxDist) : r[1] < r[2]}

DistASTs == {<<SimA, <<"distance", r>>, q>> : r \in DistRanges, q \in {SimA, SimM}}

InitDist ==
    /\ corpus \in SeqsUpTo(FullTokens, DistCorpus) \cup SeqsUpTo(PartialTokens, DistCorpus)
    /\ query \in {Surface(a) : a \in DistASTs}
    /\ direct = NoDirectCall
    /\ InitLocals

NextDist ==
    \/ findall
    \/ match
    \/ Completed
    \/ LoopExit
    \/ SimpleStep
    \/ DistanceStep

SpecDist == InitDist /\ [][NextDist]_vars

\* the scanner is about to execute the element `op` of the AST
AtElement(op) == InStep /\ operator = op

\* the reset of a failed attempt: anchor += 1; text_i = anchor; tree_i = 0;
\* start = None; the scan goes on and nothing reaches the caller
ResetEffect ==
    /\ current_initial_state' = current_initial_state + 1
    /\ text_index' = current_initial_state + 1
    /\ tree_index' = 0
    /\ first_matching_index' = None
    /\ pc' = "loop"
    /\ UNCHANGED <<all_spans, seen>>

\* the offset, from the position at which the Distance was reached, of the
\* token the step accepted
AcceptedOffset == text_index' - 1 - text_index

DistanceSucceeds == tree_index' = tree_index + 2

\* C11: a Distance{min, max} reached at position p accepts the following
\* element only at a position p + k with min <= k < max: at least min tokens
\* are skipped.
C11_DistanceLowerBound ==
    [][(AtElement("distance") /\ DistanceSucceeds) =>
          /\ current_query[2][1] <= AcceptedOffset
          /\ AcceptedOffset < current_query[2][2]]_vars

\* offsets k < max, inside the corpus, whose token satisfies the element q
GoodOffsets(q, max) ==
    {k \in 0..(max - 1) :
        /\ text_index + k < Len(corpus)
        /\ Holds(q, corpus[text_index + k + 1])}

Least(S) == CHOOSE k \in S : \A j \in S : k <= j

\* C12: a Distance{0, max} followed by a Simple element Q succeeds iff some
\* offset k < max inside the corpus has a token satisfying Q; the least such
\* k is used, tree_i grows by 2 and text_i becomes p + k + 1; otherwise the
\* scanner resets.
C12_DistanceFirstSuccess ==
    [][(AtElement("distance") /\ current_query[2][1] = 0) =>
          LET good == GoodOffsets(ast[tree_index + 2], current_query[2][2])
          IN IF good # {}
             THEN /\ DistanceSucceeds
                  /\ text_index' = text_index + Least(good) + 1
                  /\ pc' = "loop"
                  /\ UNCHANGED <<current_initial_state, first_matching_index,
                                 all_spans, seen>>
             ELSE ResetEffect]_vars

\* ------------------------------------------------------------------------
\* Missing annotations and invalid patterns during the scan
\* ------------------------------------------------------------------------

\* the transition of a successful per-token element: start = text_i if it
\* was None; tree_i += 1; text_i += 1
AdvanceEffect ==
    /\ first_matching_index' =
           IF first_matching_index = None THEN text_index ELSE first_matching_index
    /\ tree_index' = tree_index + 1
    /\ text_index' = text_index + 1
    /\ pc' = "loop"
    /\ UNCHANGED <<current_initial_state, all_spans, seen>>

\* C13: inside an Or, an alternative that hits a missing attribute counts as
\* false and the other alternatives still decide the step: the Or succeeds
\* iff some alternative holds of the token, otherwise the scanner resets; no
\* error reaches the caller.
C13_OrSwallowsMissing ==
    [][AtElement("or") =>
          IF \E k \in 2..Len(current_query) : Holds(current_query[k], current_token)
          THEN AdvanceEffect
          ELSE ResetEffect]_vars

\* [morph='.*'] at the top level, a pattern that does not compile ('('), and
\* that pattern as the child of an And, the alternative of an Or and the
\* inner of an Optional
ErrCorpus == 3

SimBad == <<"lemma", "=", <<"(">>>>

AndBad == <<"and", SimB, SimBad>>

OrBad == <<"or", SimBad, SimB>>

OptBad == <<"?", SimBad>>

ErrElems == {SimM, AndBM, SimBad, AndBad, OrBad, OptBad}

ErrASTs == {<<e>> : e \in ErrElems} \cup {<<SimA, e>> : e \in ErrElems}
             \cup {<<e, SimA>> : e \in ErrElems}

InitErr ==
    /\ corpus \in SeqsUpTo(FullTokens, ErrCorpus) \cup SeqsUpTo(PartialTokens, ErrCorpus)
    /\ query \in {Surface(a) : a \in ErrASTs}
    /\ direct = NoDirectCall
    /\ InitLocals

NextErr ==
    \/ findall
    \/ match
    \/ Completed
    \/ LoopExit
    \/ SimpleStep
    \/ OrStep
    \/ AndStep
    \/ OptionalStep

SpecErr == InitErr /\ [][NextErr]_vars

\* the token lacks an attribute the Simple or And element refers to
MissingAnnotation(e, tok) ==
    IF e[1] = "and" THEN \E k \in 2..Len(e) : e[k][1] \notin DOMAIN tok
    ELSE e[1] \notin DOMAIN tok

AtSimpleOrAnd == InStep /\ operator \in ANNOTATION_TYPES \cup {"and"}

BadSimple(q, tok) == q[1] \in DOMAIN tok /\ ~re_compiles(q[3])

\* some predicate with a pattern that does not compile is evaluated by the
\* current step: the top-level Simple itself, a child of the And none of
\* whose earlier children lacks its attribute, the first alternative of the
\* Or, or the inner of the Optional
BadPatternEvaluated ==
    IF operator \in ANNOTATION_TYPES THEN BadSimple(current_query, current_token)
    ELSE IF operator = "and"
    THEN \E k \in 2..Len(current_query) :
            /\ BadSimple(current_query[k], current_token)
            /\ \A j \in 2..(k - 1) : current_query[j][1] \in DOMAIN current_token
    ELSE IF operator \in {"or", "?"}
    THEN Len(current_query[2]) = 3 /\ current_query[2][1] \in ANNOTATION_TYPES
         /\ BadSimple(current_query[2], current_token)
    ELSE FALSE

CallRaised ==
    /\ pc' = "idle"
    /\ Len(seen'[api]) = Len(seen[api]) + 1
    /\ seen'[api][Len(seen'[api])].kind = "raise"

\* C15: whenever a Simple predicate whose pattern does not compile is
\* evaluated during a scan (top-level, child of an And, alternative of an Or,
\* inner of an Optional), findall / match raise to the caller.
C15_InvalidRegexSurfaced ==
    [][(InStep /\ BadPatternEvaluated) => CallRaised]_vars

\* ------------------------------------------------------------------------
\* utils.simple_match and utils.alternative_match called directly
\* ------------------------------------------------------------------------
MaxAlts == 2

\* a dict with no key
tokEmpty == [a \in {} |-> <<>>]

UtilTokens == {tokRey, tokAl, tokNoMorph, tokEmpty}

\* 're', 're.*', 'rey', '.*', 'N', the empty pattern, and '(' (does not compile)
Patterns == {<<"r", "e">>, <<"r", "e", ".*">>, <<"r", "e", "y">>, <<".*">>,
             <<"N">>, <<>>, <<"(">>}

\* '==' stands for any operator other than '=' and '!='
Equalities == {"=", "!=", "=="}

QueryTuples ==
    {<<a, eq, p>> : a \in {"lemma", "pos", "morph"}, eq \in Equalities, p \in Patterns}
      \cup {<<>>, <<"lemma">>, <<"lemma", "=">>, OptA,
            <<"lemma", "=", <<"r", "e">>, "extra">>}

NeqA == <<"lemma", "!=", <<"r", "e", ".*">>>>

Alternatives == {SimA, SimB, NeqA, AndBM, AndBad}

SimpleMatchCalls ==
    {DirectCall("simple_match", <<q, t>>) : q \in QueryTuples, t \in UtilTokens}

AlternativeMatchCalls ==
    {DirectCall("alternative_match", <<qs, t>>) :
        qs \in SeqsUpTo(Alternatives, MaxAlts), t \in UtilTokens \ {tokEmpty}}

\* what the caller of a utils function gets: the boolean or the exception
Outcome(r) == IF IsExc(r) THEN Raise(r) ELSE Return(r = "True")

DirectReturns(outcome) ==
    /\ direct' = [direct EXCEPT !.outcome = outcome]
    /\ UNCHANGED <<corpus, query, pc, api, locals, seen>>

simple_match_call ==
    /\ direct.fn = "simple_match"
    /\ direct.outcome.kind = "pending"
    /\ DirectReturns(Outcome(simple_match(direct.args[1], direct.args[2])))

alternative_match_call ==
    /\ direct.fn = "alternative_match"
    /\ direct.outcome.kind = "pending"
    /\ DirectReturns(Outcome(alternative_match(direct.args[1], direct.args[2])))

InitUtils ==
    /\ corpus = <<>>
    /\ query = <<>>
    /\ direct \in SimpleMatchCalls \cup AlternativeMatchCalls
    /\ InitLocals

NextUtils ==
    \/ simple_match_call
    \/ alternative_match_call

SpecUtils == InitUtils /\ [][NextUtils]_vars

Called(name) == direct.fn = name /\ direct.outcome.kind # "pending"

\* the outcome o is the outcome e: same kind, same value
Is(o, e) == o.kind = e.kind /\ o.value = e.value

\* the whole value v matches the pattern p: the value is cut into one piece
\* per pattern item, a literal item taking exactly its own character and
\* '.*' taking any piece
WholeValueMatches(p, v) ==
    \E cut \in [0..Len(p) -> 0..Len(v)] :
        /\ cut[0] = 0
        /\ cut[Len(p)] = Len(v)
        /\ \A i \in 1..Len(p) :
              IF p[i] = ".*" THEN cut[i] >= cut[i - 1]
              ELSE cut[i] = cut[i - 1] + 1 /\ v[cut[i]] = p[i]

\* C16: for a token that has the attribute and a pattern that compiles,
\* simple_match with '=' returns true exactly when the whole attribute value
\* matches the pattern, and with '!=' returns the negation of that.
C16_EqNeqDuality ==
    (/\ Called("simple_match")
     /\ Len(direct.args[1]) = 3
     /\ direct.args[1][2] \in {"=", "!="}
     /\ direct.args[1][1] \in DOMAIN direct.args[2]
     /\ re_compiles(direct.args[1][3])) =>
        LET q == direct.args[1]
            whole == WholeValueMatches(q[3], direct.args[2][q[1]])
        IN Is(direct.outcome, Return(IF q[2] = "=" THEN whole ELSE ~whole))

C16_Witness ==
    /\ Called("simple_match")
    /\ direct.args = <<<<"lemma", "!=", <<"r", "e">>>>, tokRey>>
    /\ Is(direct.outcome, Return(TRUE))

\* C17 as stated: ValueError for a tuple whose length is not 3; KeyError for
\* a 3-tuple whose attribute the token lacks; ValueError for a 3-tuple whose
\* operator is neither '=' nor '!='; a boolean in every other case.
C17_SimpleMatchErrors ==
    Called("simple_match") =>
        LET q == direct.args[1]
            tok == direct.args[2]
        IN IF Len(q) # 3 THEN Is(direct.outcome, Raise("ValueError"))
           ELSE IF q[1] \notin DOMAIN tok THEN Is(direct.outcome, Raise("KeyError"))
           ELSE IF q[2] \notin {"=", "!="} THEN Is(direct.outcome, Raise("ValueError"))
           ELSE Returned(direct.outcome) /\ direct.outcome.value \in BOOLEAN

\* C17 amended: as C17, with ValueError also for a 3-tuple whose attribute is
\* present and whose pattern does not compile; a boolean in every other case.
C17_SimpleMatchErrors_Amended ==
    Called("simple_match") =>
        LET q == direct.args[1]
            tok == direct.args[2]
        IN IF Len(q) # 3 THEN Is(direct.outcome, Raise("ValueError"))
           ELSE IF q[1] \notin DOMAIN tok THEN Is(direct.outcome, Raise("KeyError"))
           ELSE IF q[2] \notin {"=", "!="} \/ ~re_compiles(q[3])
                THEN Is(direct.outcome, Raise("ValueError"))
           ELSE Returned(direct.outcome) /\ direct.outcome.value \in BOOLEAN

C17_Witness ==
    /\ Called("simple_match")
    /\ direct.args = <<<<"morph", "==", <<"(">>>>, tokNoMorph>>
    /\ Is(direct.outcome, Raise("KeyError"))

\* the attributes an alternative refers to, and its patterns
RECURSIVE Referenced(_)
Referenced(e) ==
    IF e[1] = "and" THEN UNION {Referenced(e[k]) : k \in 2..Len(e)} ELSE {e[1]}

RECURSIVE PatternsCompile(_)
PatternsCompile(e) ==
    IF e[1] = "and" THEN \A k \in 2..Len(e) : PatternsCompile(e[k])
    ELSE re_compiles(e[3])

AllReferencedPresent(qs, tok) ==
    \A k \in 1..Len(qs) : Referenced(qs[k]) \subseteq DOMAIN tok

IsDisjunction ==
    Is(direct.outcome,
       Return(\E k \in 1..Len(direct.args[1]) : Holds(direct.args[1][k], direct.args[2])))

EngCorpus == 2

\* the two modes of engine.py 42, and strings that are neither
ValidModes == {"match", "find"}

InvalidModes == {"findall", "", "MATCH"}

EngineASTs ==
    {<<>>, <<SimA>>, <<SimA, SimB>>, <<AndBM>>, <<OptA>>, <<OrA_BM>>,
     <<SimA, <<"distance", <<0, 2>>>>, SimA>>}

ParseCorpusCalls ==
    {DirectCall("parse_corpus", <<a, c, m>>) :
        a \in EngineASTs, c \in SeqsUpTo(FullTokens, EngCorpus),
        m \in ValidModes \cup InvalidModes}

\* engine.py 14-61: parse_corpus(ast, corpus, mode) up to the first loop
\* iteration; the caller repeats the call at most MaxCalls times
parse_corpus ==
    /\ pc = "idle"
    /\ direct.fn = "parse_corpus"
    /\ Len(seen["parse_corpus"]) < MaxCalls
    /\ UNCHANGED inputs
    /\ \E pre \in {parse_corpus_precheck(direct.args[1], direct.args[2],
                                          direct.args[3])} :
          IF pre.kind # "proceed"
          THEN FinishCall("parse_corpus", pre) /\ UNCHANGED locals
          ELSE parse_corpus_enter("parse_corpus", direct.args[1], direct.args[3])

InitEngine ==
    /\ direct \in ParseCorpusCalls
    /\ corpus = direct.args[2]
    /\ query = <<>>
    /\ InitLocals

NextEngine ==
    \/ parse_corpus
    \/ Completed
    \/ LoopExit
    \/ SimpleStep
    \/ OrStep
    \/ DistanceStep
    \/ AndStep
    \/ OptionalStep

SpecEngine == InitEngine /\ [][NextEngine]_vars

InvalidModeCall == direct.fn = "parse_corpus" /\ direct.args[3] \notin ValidModes

\* C19: parse_corpus called with a mode other than "match" and "find" raises
\* ValueError, whatever the AST and the corpus (empty ones included): every
\* outcome of the call is that error, the loop is never entered and no span
\* is collected.
C19_InvalidModeRaises ==
    InvalidModeCall =>
        /\ pc = "idle"
        /\ all_spans = <<>>
        /\ \A i \in 1..Len(seen["parse_corpus"]) :
               Is(seen["parse_corpus"][i], Raise("ValueError"))

\* an invalid mode with the empty AST and the empty corpus, the call made
C19_Witness ==
    /\ InvalidModeCall
    /\ direct.args[1] = <<>>
    /\ direct.args[2] = <<>>
    /\ Len(seen["parse_corpus"]) = MaxCalls


\* ------------------------------------------------------------------------
\* DISTANCE tokens: queries P []{m,n} Q and P []{,n} Q for every m and n,
\* n <= m included
\* ------------------------------------------------------------------------
MaxGap == 3

ParseCorpus == 2

\* the numbers written in a DISTANCE token; 10 is written with two digits
GapNumbers == (0..MaxGap) \cup {10}

\* the decimal digits of n
RECURSIVE Decimal(_)
Decimal(n) ==
    IF n < 10 THEN <<DigitChar(n)>> ELSE Decimal(n \div 10) \o <<DigitChar(n % 10)>>

\* the text `[]{m,n}`; m = None writes no lower bound (`[]{,n}`); with
\* spaces, `[]{m , n}`
DistanceText(m, n, spaces) ==
    <<"[", "]", "{">>
      \o (IF m = None THEN <<>> ELSE Decimal(m))
      \o (IF spaces THEN <<" ", ",", " ">> ELSE <<",">>)
      \o Decimal(n) \o <<"}">>

DistanceQuery(m, n, spaces, q) ==
    Surface(<<SimA>>) \o <<Lexeme("DISTANCE", DistanceText(m, n, spaces))>>
      \o Surface(<<q>>)

DistanceQueries ==
    {DistanceQuery(m, n, sp, q) :
        m \in GapNumbers \cup {None}, n \in GapNumbers, sp \in BOOLEAN,
        q \in {SimA, SimB}}

InitParse ==
    /\ corpus \in SeqsUpTo(FullTokens, ParseCorpus)
    /\ query \in DistanceQueries
    /\ direct = NoDirectCall
    /\ InitLocals

NextParse ==
    \/ findall
    \/ match
    \/ Completed
    \/ LoopExit
    \/ SimpleStep
    \/ DistanceStep

SpecParse == InitParse /\ [][NextParse]_vars

DistanceElements == {j \in 1..Len(ast) : ast[j][1] = "distance"}

\* the AST the scanner runs on was produced from a token written with m
\* (None: no lower bound written) and n
ScanningTokenOf(m, n) ==
    /\ pc = "loop"
    /\ \E sp \in BOOLEAN, q \in {SimA, SimB} : query = DistanceQuery(m, n, sp, q)

\* C20: every Distance element the front end hands to the scanner, produced
\* from a token `[]{m,n}` or `[]{,n}`, is Distance{m, n} (min = 0 when m is
\* not written) and satisfies min >= 0 and max > min; a token with n <= m
\* does not reach the scanner as a Distance element.
C20_DistanceInvariant ==
    \A m \in GapNumbers \cup {None}, n \in GapNumbers :
        ScanningTokenOf(m, n) =>
            /\ DistanceElements = {2}
            /\ ast[2][2] = <<IF m = None THEN 0 ELSE m, n>>
            /\ ast[2][2][1] >= 0
            /\ ast[2][2][2] > ast[2][2][1]


\* ------------------------------------------------------------------------
\* The transitions of the scanner, one by one
\* ------------------------------------------------------------------------
\* the top of the loop with the whole AST matched, in find mode
AtCompletion == pc = "loop" /\ tree_index = ast_length /\ mode = "find"

\* an attempt begins: nothing of the AST matched yet, no start recorded
AttemptBegins == pc = "loop" /\ tree_index = 0 /\ first_matching_index = None

\* C21: at a completion in find mode the span (start, text_i) is emitted and
\* the scanner sets anchor to anchor + 1, text_i to the new anchor, tree_i to
\* 0 and start to None; so the attempt that follows a completed match begins
\* with text_i equal to anchor, one position after the start of the previous
\* attempt.
C21_CompletionTransition ==
    [][AtCompletion =>
          /\ all_spans' = Append(all_spans, <<first_matching_index, text_index>>)
          /\ current_initial_state' = current_initial_state + 1
          /\ text_index' = current_initial_state + 1
          /\ tree_index' = 0
          /\ first_matching_index' = None
          /\ AttemptBegins' /\ text_index' = current_initial_state']_vars


\* Optional elements whose inner is a Simple or an And element, alone, after
\* and before other elements, on corpora with tokens lacking morph
OptCorpus == 3

OptM == <<"?", SimM>>

OptBM == <<"?", AndBM>>

OptElems == {SimA, OptA, OptM, OptBM}

OptASTs == {<<e>> : e \in OptElems} \cup {<<e, f>> : e \in OptElems, f \in OptElems}

InitOpt ==
    /\ corpus \in SeqsUpTo(FullTokens, OptCorpus) \cup SeqsUpTo(PartialTokens, OptCorpus)
    /\ query \in {Surface(a) : a \in OptASTs}
    /\ direct = NoDirectCall
    /\ InitLocals

NextOpt ==
    \/ findall
    \/ match
    \/ Completed
    \/ LoopExit
    \/ SimpleStep
    \/ OptionalStep

SpecOpt == InitOpt /\ [][NextOpt]_vars

DistanceTarget == ast[tree_index + 2]

\* a token within reach of the Distance (fewer than max positions ahead)
\* lacks the attribute of the Simple element that follows the Distance
TargetAttributeMissing ==
    /\ DistanceTarget[1] \in ANNOTATION_TYPES
    /\ \E k \in 0..(current_query[2][2] - 1) :
          /\ text_index + k < Len(corpus)
          /\ DistanceTarget[1] \notin DOMAIN corpus[text_index + k + 1]

\* C23: at a Distance followed by a Simple element, a token within the range
\* that lacks the referenced attribute counts as a miss: the step either
\* reaches the element at a later position or resets the scanner, and no
\* error reaches the caller of findall / match.
C23_DistanceMissingAnnotation ==
    [][(AtElement("distance") /\ TargetAttributeMissing) =>
          /\ pc' = "loop"
          /\ UNCHANGED seen
          /\ (DistanceSucceeds \/ ResetEffect)]_vars


\* the query is P Q? with P a Simple element
SimpleThenOptional ==
    /\ WellFormed(query)
    /\ Len(ASTOf(query)) = 2
    /\ ASTOf(query)[1][1] \in ANNOTATION_TYPES
    /\ ASTOf(query)[2][1] = "?"

SatisfiedAt(i) == Holds(ASTOf(query)[1], corpus[i])

\* C24: for an AST [P, Optional{Q}] with P a Simple element, match returns
\* true iff some token of the corpus satisfies P, also when the only such
\* token is the last one (nothing is left for Q); findall then contains the
\* span (|corpus| - 1, |corpus|).
C24_TrailingOptional ==
    SimpleThenOptional =>
        /\ \A o \in Outcomes("match") :
               /\ Returned(o)
               /\ o.value = (\E i \in 1..Len(corpus) : SatisfiedAt(i))
        /\ \A o \in Outcomes("findall") :
               /\ Returned(o)
               /\ (/\ corpus # <<>>
                   /\ SatisfiedAt(Len(corpus))
                   /\ \A i \in 1..(Len(corpus) - 1) : ~SatisfiedAt(i))
                  => Contains(o.value, <<Len(corpus) - 1, Len(corpus)>>)


\* the span is an occurrence of the pattern a: it starts at an integer
\* position, spans Len(a) tokens and every element holds of its token
SoundSpan(a, sp) ==
    /\ sp[1] # None
    /\ sp[1] >= 0
    /\ sp[2] = sp[1] + Len(a)
    /\ Occurrence(a, sp[1])

\* C25: for an AST of k per-token elements (Simple, And, Or only) every span
\* (s, e) the scanner emits, and so every span of the list findall returns,
\* has e = s + k and the token at s + j satisfies ast[j] for every j < k.
C25_SpanSoundness ==
    /\ (pc = "loop" /\ PerTokenOnly(ast)) =>
           \A k \in 1..Len(all_spans) : SoundSpan(ast, all_spans[k])
    /\ (WellFormed(query) /\ PerTokenOnly(ASTOf(query))) =>
           \A o \in Outcomes("findall") :
               Returned(o) =>
                   \A k \in 1..Len(o.value) : SoundSpan(ASTOf(query), o.value[k])

\* [lemma='re.*'][pos='N' & morph='.*'] on rey, rey: findall has returned
\* the span (0, 2)
C25_Witness ==
    /\ query = Surface(<<SimA, AndBM>>)
    /\ corpus = <<tokRey, tokRey>>
    /\ Len(seen["findall"]) >= 1
    /\ Is(seen["findall"][1], Return(<<<<0, 2>>>>))


\* ------------------------------------------------------------------------
\* Termination: parse_corpus called directly on any mix of elements, an
\* unrecognised one included
\* ------------------------------------------------------------------------
TermCorpus == 3

\* a tuple whose tag is none of the operators of engine.py 106-223
Unknown == <<"lexeme", "=", <<"r", "e", ".*">>>>

KnownOperators == ANNOTATION_TYPES \cup {"or", "distance", "and", "?"}

\* engine.py 225-227: an unknown operator is skipped
UnknownStep ==
    /\ InStep
    /\ operator \notin KnownOperators
    /\ UNCHANGED inputs
    /\ tree_index' = tree_index + 1
    /\ UNCHANGED <<text_index, current_initial_state, first_matching_index,
                   all_spans, ast, mode, pc, api, seen>>

TermElems == {SimA, SimM, AndBM, OrA_BM, OptA, <<"distance", <<0, 2>>>>, Unknown}

TermASTs == {<<e>> : e \in TermElems} \cup {<<e, f>> : e \in TermElems, f \in TermElems}

InitTerm ==
    /\ direct \in {DirectCall("parse_corpus", <<a, c, m>>) :
                      a \in TermASTs, c \in SeqsUpTo(PartialTokens, TermCorpus),
                      m \in ValidModes}
    /\ corpus = direct.args[2]
    /\ query = <<>>
    /\ InitLocals

\* one iteration of the while loop
LoopStep ==
    \/ Completed
    \/ LoopExit
    \/ SimpleStep
    \/ OrStep
    \/ DistanceStep
    \/ AndStep
    \/ OptionalStep
    \/ UnknownStep

NextTerm ==
    \/ parse_corpus
    \/ Completed
    \/ LoopExit
    \/ SimpleStep
    \/ OrStep
    \/ DistanceStep
    \/ AndStep
    \/ OptionalStep
    \/ UnknownStep

\* a call that has entered the loop keeps executing it
SpecTerm == InitTerm /\ [][NextTerm]_vars /\ WF_vars(LoopStep)

\* a step of the loop after which the loop goes on
Iteration == pc = "loop" /\ pc' = "loop"

\* a reset or a completion: the next attempt starts from the first element
Restart == Iteration /\ tree_index' = 0

\* the call ends with an exception
Raises ==
    /\ pc = "loop"
    /\ pc' = "idle"
    /\ seen'[api][Len(seen'[api])].kind = "raise"

\* the step evaluates an element on the token under text_index: it moves the
\* cursor or raises
ReadsToken == pc = "loop" /\ tree_index # ast_length /\ (cursor' # cursor \/ Raises)

\* C26: the loop of parse_corpus terminates, in both modes, for every corpus
\* and every AST (any mix of Simple, And, Or, Optional, Distance and
\* unrecognised elements); anchor never decreases and grows by exactly 1 at
\* every reset and every completion; tree_i never exceeds |ast|; the corpus
\* is read only at positions text_i < |corpus|.
C26_Termination ==
    /\ (pc = "loop") ~> (pc = "idle")
    /\ [][/\ Restart => current_initial_state' = current_initial_state + 1
          /\ (Iteration /\ ~Restart) => current_initial_state' = current_initial_state
          /\ (pc = "loop" /\ pc' = "idle") => current_initial_state' = current_initial_state
          /\ ReadsToken => (0 <= text_index /\ text_index < Len(corpus))]_vars
    /\ [](pc = "loop" => (0 <= tree_index /\ tree_index <= ast_length))

\* [lexeme='re.*'][lemma='re.*'] in find mode on three tokens without a
\* match: the call has returned after three resets
C26_Witness ==
    /\ pc = "idle"
    /\ direct.args = <<<<Unknown, SimA>>, <<tokNoMorph, tokNoMorph, tokNoMorph>>, "find">>
    /\ Len(seen["parse_corpus"]) >= 1
    /\ current_initial_state = 3

====
